---------------------------- MODULE Spec2Model ----------------------------
(***************************************************************************)
(* Pothole detection service: the video processing pipeline, the track     *)
(* confirmation logic, the worker-thread / event-loop bridge, the live     *)
(* listener manager and the results store.                                 *)
(*                                                                         *)
(* Numbers.  Confidences and ratios are in hundredths (0.28 is 28).  A     *)
(* timestamp frame_count / fps is kept as its numerator frame_count over   *)
(* the job's denominator fps (0 over 1 when fps = 0), so                   *)
(* current_time - t <= 1.0 is cur - t <= fps.  The inputs below use fps    *)
(* values for which the float computation of the source gives the same    *)
(* answer (powers of two, and 30 away from the window's edge), and frame   *)
(* counts for which int((p / (T / 2)) * 95) equals the integer quotient.   *)
(* Bounding boxes are not modelled: no decision of the code reads them.    *)
(***************************************************************************)
EXTENDS Integers, Sequences, FiniteSets, TLC

\* ------------------------------------------------------------ constants

MIN_DETECTION_FRAMES == 3
DETECTION_TIME_WINDOW == 1
FRAME_STEP == 2
MAX_STORED_FRAMES == 1500
TRACK_HISTORY_MAXLEN == 20

\* The one job id the model follows (uuid4 of the upload).
VIDEO == "v1"

\* ------------------------------------------------------------ bounds

\* Frames of an uploaded video in the detector-driven specification.
MaxFrames == 16
\* Distinct track ids the detector may report there.
MaxTracks == 2
\* Frames of an uploaded video in the concurrency specification.
MaxConcFrames == 2
\* Boxes in one detector result.
MaxBoxes == 2
\* The largest speed (km/h) of an upload.
MaxSpeed == 61

\* ------------------------------------------------------------ dictionaries

\* A Python dict is a function on the set of its keys.
EmptyDict == [k \in {} |-> 0]

DictPut(d, k, v) == [x \in (DOMAIN d) \cup {k} |-> IF x = k THEN v ELSE d[x]]

DictDel(d, k) == [x \in (DOMAIN d) \ {k} |-> d[x]]

\* defaultdict(lambda: deque(maxlen=20)): a missing key reads as the empty deque.
TrackerGet(tracker, track_id) ==
    IF track_id \in DOMAIN tracker THEN tracker[track_id] ELSE << >>

\* Mutant: a history of two entries, fewer than a confirmation needs.
DequeAppendShort(dq, x) == IF Len(dq) >= 2 THEN Append(Tail(dq), x) ELSE Append(dq, x)

\* deque(maxlen=20).append: the oldest entry leaves when the deque is full.
DequeAppend(dq, x) ==
    IF Len(dq) >= TRACK_HISTORY_MAXLEN THEN Append(Tail(dq), x) ELSE Append(dq, x)

\* confirmed_potholes is a dict whose iteration order (insertion order) the
\* report reads: a sequence of <<key, value>> entries with distinct keys.
OrderedHas(od, k) == \E i \in 1..Len(od) : od[i].key = k

OrderedGet(od, k) == od[CHOOSE i \in 1..Len(od) : od[i].key = k].value

\* od[k] = v: a present key keeps its place, a new key goes last.
OrderedPut(od, k, v) ==
    IF OrderedHas(od, k)
    THEN [i \in 1..Len(od) |-> IF od[i].key = k THEN [key |-> k, value |-> v] ELSE od[i]]
    ELSE Append(od, [key |-> k, value |-> v])

\* ------------------------------------------------------------ arithmetic

\* round(n / d, 2) in hundredths, ties to even (d > 0, n >= 0).
Round2(n, d) ==
    LET q == (100 * n) \div d
        r == (100 * n) % d
    IN  IF 2 * r > d \/ (2 * r = d /\ q % 2 = 1) THEN q + 1 ELSE q

\* ------------------------------------------------------------ parameters

\* Mutant: the bands' edges on the other side (<=).
get_adaptive_paramsEdgesBelow(speed) ==
    IF speed <= 30
    THEN [roi_ratio |-> 50, pothole_conf |-> 35]
    ELSE IF speed <= 60
         THEN [roi_ratio |-> 65, pothole_conf |-> 28]
         ELSE [roi_ratio |-> 75, pothole_conf |-> 22]

get_adaptive_params(speed) ==
    IF speed < 30
    THEN [roi_ratio |-> 50, pothole_conf |-> 35]
    ELSE IF speed < 60
         THEN [roi_ratio |-> 65, pothole_conf |-> 28]
         ELSE [roi_ratio |-> 75, pothole_conf |-> 22]

\* ------------------------------------------------------------ confirmation

\* A timestamp frame_count / fps is the numerator over TimeDen(fps).
TimeDen(fps) == IF fps > 0 THEN fps ELSE 1

\* current_time = frame_count / fps if fps > 0 else 0.0
CurrentTime(frame_count, fps) == IF fps > 0 THEN frame_count ELSE 0

\* Mutant: the window's edge left out (<).
WithinWindowStrict(current_time, t, fps) ==
    current_time - t < DETECTION_TIME_WINDOW * TimeDen(fps)

\* current_time - t <= DETECTION_TIME_WINDOW
WithinWindow(current_time, t, fps) ==
    current_time - t <= DETECTION_TIME_WINDOW * TimeDen(fps)

\* recent_detections: the entries of the track's deque inside the window.
RecentDetections(history, current_time, fps) ==
    SelectSeq(history, LAMBDA t : WithinWindow(current_time, t, fps))

\* Mutant: one observation more than the threshold asked for (>).
IsConfirmedStrict(recent_detections) == Len(recent_detections) > MIN_DETECTION_FRAMES

IsConfirmed(recent_detections) == Len(recent_detections) >= MIN_DETECTION_FRAMES

\* Mutant: the membership test forgotten.
NewlyConfirmedAlways(is_confirmed, confirmed_potholes, track_id) == is_confirmed

\* if is_confirmed and track_id not in confirmed_potholes
NewlyConfirmed(is_confirmed, confirmed_potholes, track_id) ==
    is_confirmed /\ ~OrderedHas(confirmed_potholes, track_id)

\* One tracked box of a sampled frame.  acc holds the frame's running values:
\* tracker, confirmed, observed (every timestamp appended to a track, kept
\* whole for the properties), cur = current_frame_potholes,
\* new = new_potholes_count, dets = pothole_detections.
HandleTrackedBox(acc, box, frame_id, current_time, fps) ==
    LET track_id == box.track_id
        history == DequeAppend(TrackerGet(acc.tracker, track_id), current_time)
        tracker1 == DictPut(acc.tracker, track_id, history)
        observed1 == DictPut(acc.observed, track_id,
                             Append(TrackerGet(acc.observed, track_id), current_time))
        is_confirmed == IsConfirmed(RecentDetections(history, current_time, fps))
        newly == NewlyConfirmed(is_confirmed, acc.confirmed, track_id)
        confirmed1 ==
            IF newly
            THEN OrderedPut(acc.confirmed, track_id,
                            [first_seen_frame |-> frame_id,
                             first_seen_time |-> current_time,
                             confidence |-> box.conf])
            ELSE acc.confirmed
        stored == OrderedHas(confirmed1, track_id)
    IN  [tracker |-> tracker1,
         observed |-> observed1,
         confirmed |-> confirmed1,
         new |-> IF newly THEN 1 ELSE acc.new,
         cur |-> IF stored THEN acc.cur + 1 ELSE acc.cur,
         dets |-> IF stored
                  THEN Append(acc.dets, [frame_id |-> frame_id,
                                         pothole_id |-> track_id,
                                         confidence |-> box.conf])
                  ELSE acc.dets]

\* Mutant: the detection of a box without a track id stored (the append of
\* line 193 not commented out), its pothole_id None (0 here).
HandleUntrackedBoxStored(acc) ==
    [acc EXCEPT !.cur = @ + 1,
                !.dets = Append(@, [frame_id |-> 0, pothole_id |-> 0, confidence |-> 0])]

\* One box of a result without track ids: counted, never stored.
HandleUntrackedBox(acc) == [acc EXCEPT !.cur = @ + 1]

\* The first k boxes of the result, in order.
RECURSIVE HandleBoxes(_, _, _, _, _, _, _)
HandleBoxes(acc, boxes, has_ids, k, frame_id, current_time, fps) ==
    IF k = 0
    THEN acc
    ELSE LET before == HandleBoxes(acc, boxes, has_ids, k - 1, frame_id, current_time, fps)
         IN  IF has_ids
             THEN HandleTrackedBox(before, boxes[k], frame_id, current_time, fps)
             ELSE HandleUntrackedBox(before)

\* Mutant: the newest entry leaves (pop() for pop(0)).
AppendFrameEntryDropNewest(frames_log, entry) ==
    LET longer == Append(frames_log, entry)
    IN  IF Len(longer) > MAX_STORED_FRAMES THEN SubSeq(longer, 1, Len(longer) - 1) ELSE longer

\* results_log["frames"].append(entry), then pop(0) above MAX_STORED_FRAMES.
AppendFrameEntry(frames, entry) ==
    LET longer == Append(frames, entry)
    IN  IF Len(longer) > MAX_STORED_FRAMES THEN Tail(longer) ELSE longer

\* Mutant: the frame's entry logged whatever the frame holds.
HasStoredDetectionsAlways(pothole_detections) == TRUE

\* if pothole_detections:
HasStoredDetections(pothole_detections) == pothole_detections # << >>

\* detect_frame_with_roi.  det is what pothole_model.track gives for the frame:
\* boxes (each a track id and a confidence), has_ids (r.boxes.id is not None)
\* and raise_after: -1 when nothing raises, else the number of boxes handled
\* before the call or the handling raises (0: the call itself raises).  The
\* except branch logs and falls through to the return, so what was done to
\* the tracker and the confirmed dict before the exception stays.
detect_frame_with_roi(det, frame_id, frames, tracker, confirmed, observed, current_time, speed_kmh, fps) ==
    LET params == get_adaptive_params(speed_kmh)
        start == [tracker |-> tracker, observed |-> observed, confirmed |-> confirmed,
                  new |-> 0, cur |-> 0, dets |-> << >>]
        raised == det.raise_after >= 0
        k == IF raised THEN det.raise_after ELSE Len(det.boxes)
        acc == HandleBoxes(start, det.boxes, det.has_ids, k, frame_id, current_time, fps)
        entry == [frame_id |-> frame_id, speed_kmh |-> speed_kmh,
                  roi_ratio |-> params.roi_ratio, potholes |-> acc.dets]
    IN  [frames |-> IF ~raised /\ HasStoredDetections(acc.dets)
                    THEN AppendFrameEntry(frames, entry) ELSE frames,
         tracker |-> acc.tracker,
         observed |-> acc.observed,
         confirmed |-> acc.confirmed,
         n_potholes |-> acc.cur,
         n_untracked |-> IF det.has_ids THEN 0 ELSE k,
         new_potholes |-> acc.new]

\* ------------------------------------------------------------ the detector

\* The external detection-and-tracking capability, as a stub:
\*   "none"      never a box;
\*   "scripted"  one box of track_id with confidence conf in every sampled
\*               frame from dense_from on, and before that in the frames
\*               whose number is a multiple of period (period > 0);
\*   "any"       any result over the track ids `tracks` and the confidences
\*               `confs`, with or without track ids, raising when `raises`.
\* track(conf=threshold) returns only boxes at or above the threshold.
NoBoxes == [boxes |-> << >>, has_ids |-> TRUE, raise_after |-> -1]

BoxLists(tracks, confs, threshold) ==
    LET Box == [track_id : tracks, conf : {c \in confs : c >= threshold}]
    IN  {bs \in UNION {[1..n -> Box] : n \in 1..MaxBoxes} :
            \A i, j \in 1..Len(bs) : i # j => bs[i].track_id # bs[j].track_id}

RaisePoints(stub, boxes) ==
    {-1} \cup (IF stub.raises THEN 0..(IF Len(boxes) > 0 THEN Len(boxes) - 1 ELSE 0) ELSE {})

DetectorResults(stub, frame_id, threshold) ==
    CASE stub.kind = "none" -> {NoBoxes}
      [] stub.kind = "scripted" ->
            IF (frame_id >= stub.dense_from
                \/ (stub.period > 0 /\ frame_id % stub.period = 0))
               /\ stub.conf >= threshold
            THEN {[boxes |-> <<[track_id |-> stub.track_id, conf |-> stub.conf]>>,
                   has_ids |-> TRUE, raise_after |-> -1]}
            ELSE {NoBoxes}
      [] OTHER ->
            {[boxes |-> << >>, has_ids |-> TRUE, raise_after |-> r] :
                r \in RaisePoints(stub, << >>)}
            \cup {[boxes |-> bs, has_ids |-> h, raise_after |-> r] :
                    bs \in BoxLists(stub.tracks, stub.confs, threshold),
                    h \in (IF stub.untracked THEN BOOLEAN ELSE {TRUE}),
                    r \in {-1}}
            \cup {[boxes |-> bs, has_ids |-> TRUE, raise_after |-> Len(bs) - 1] :
                    bs \in (IF stub.raises
                            THEN BoxLists(stub.tracks, stub.confs, threshold) ELSE {})}

\* ------------------------------------------------------------ state

VARIABLES
    input,                  \* the upload and its surroundings (fixed per run)
    upload_pc,              \* UploadService.upload_video
    wrapper_pc,             \* VideoProcessor.process_video (event-loop task)
    worker_pc,              \* VideoProcessor._process_video_blocking (pool thread)
    exc,                    \* the exception the worker's except block holds
    frame_count, processed_frame_count, last_progress, total_detections,
    pothole_tracker, confirmed_potholes, frames,
    observed,               \* history: every timestamp appended per track
    det_raised,             \* history: the detection step of the last sampled frame raised
    det_untracked,          \* history: boxes without a track id handled in the last sampled frame
    processing_status, detection_results, result_files,
    active_connections,     \* ConnectionManager.active_connections
    loop_queue,             \* coroutines handed over by run_coroutine_threadsafe
    emitted,                \* history: every event the worker handed over
    conn,                   \* per connection: handler position, client, log
    attached                \* history: connections in the order they attached

workerVars == <<exc, frame_count, processed_frame_count, last_progress, total_detections, pothole_tracker, confirmed_potholes, frames, observed, det_raised, det_untracked>>

storeVars == <<processing_status, detection_results, result_files>>

connVars == <<active_connections, conn, attached>>

vars == <<input, upload_pc, wrapper_pc, worker_pc, workerVars, storeVars, connVars, loop_queue, emitted>>

\* The first connection opened for the job, and a second one.
Connections == 1..2

\* ------------------------------------------------------------ events

NoSummary == [total_frames |-> -1, processed_frames |-> -1, frame_step |-> -1, unique_potholes |-> -1, total_detections |-> -1, frames_with_detections |-> -1, detection_rate |-> -1]

\* An event as sent to a listener; -1, "" and NoSummary stand for a key the
\* event does not carry.
Event(type, status, progress, message) ==
    [type |-> type, status |-> status, progress |-> progress, message |-> message,
     unique_potholes |-> -1, total_detections |-> -1, summary |-> NoSummary]

\* Mutant: a final status is never written, the job stays in processing.
StatusRecordNeverFinal(status, progress, message) ==
    [status |-> IF status \in {"completed", "error"} THEN "processing" ELSE status,
     progress |-> progress, message |-> message]

\* {"type": "status", **processing_status[video_id]}
StatusEvent(record) == Event("status", record.status, record.progress, record.message)

StatusRecord(status, progress, message) ==
    [status |-> status, progress |-> progress, message |-> message]

\* ------------------------------------------------------------ the report

\* int((processed_frame_count / (total_frames / FRAME_STEP)) * 95) + 5
CurrentProgress(processed, total) == ((processed * FRAME_STEP * 95) \div total) + 5

\* Mutant: every advance reported.
ShouldReportAnyAdvance(current, last) == current > last

\* if current_progress - last_progress >= 5
ShouldReport(current, last) == current - last >= 5

\* Mutant: the list sorted by pothole id.
SortKeyById(entry) == entry.pothole_id

\* The key pothole_list.sort orders by.
SortKey(entry) == entry.first_detected_frame

\* list.sort(key=...): stable; insertion of each entry after the last entry
\* whose key is not larger.
RECURSIVE SortByKey(_)
SortByKey(list) ==
    IF list = << >>
    THEN << >>
    ELSE LET sorted == SortByKey(SubSeq(list, 1, Len(list) - 1))
             last == list[Len(list)]
             before == SelectSeq(sorted, LAMBDA e : SortKey(e) <= SortKey(last))
             after == SelectSeq(sorted, LAMBDA e : SortKey(e) > SortKey(last))
         IN  before \o <<last>> \o after

\* for ph_id, info in confirmed_potholes.items(): pothole_list.append(...)
PotholeList(confirmed, fps) ==
    SortByKey([i \in 1..Len(confirmed) |->
                [pothole_id |-> confirmed[i].key,
                 first_detected_frame |-> confirmed[i].value.first_seen_frame,
                 first_detected_time |-> Round2(confirmed[i].value.first_seen_time, TimeDen(fps)),
                 confidence |-> confirmed[i].value.confidence]])

Summary(fc, processed, confirmed, detections, log) ==
    [total_frames |-> fc,
     processed_frames |-> processed,
     frame_step |-> FRAME_STEP,
     unique_potholes |-> Len(confirmed),
     total_detections |-> detections,
     frames_with_detections |-> Len(log),
     detection_rate |-> IF processed > 0 THEN Round2(Len(log) * 100, processed) ELSE 0]

\* The results dict (processed_at, the path and the resolution are left out).
BuildResults ==
    [video_id |-> VIDEO,
     speed_kmh |-> input.speed_kmh,
     video_info |-> [total_frames |-> input.total_frames,
                     fps |-> input.fps,
                     duration |-> IF input.fps > 0
                                  THEN Round2(input.total_frames, input.fps) ELSE 0],
     summary |-> Summary(frame_count, processed_frame_count, confirmed_potholes,
                         total_detections, frames),
     pothole_list |-> PotholeList(confirmed_potholes, input.fps),
     frames |-> frames]

\* ------------------------------------------------------------ the result file
\* json.dump writes a dict as the list of its members in insertion order and
\* a list as the list of its items; json.load builds the dicts back, the last
\* member of a name winning.  Strings and numbers are read as written.

Members(dict, keys) == [i \in 1..Len(keys) |-> [name |-> keys[i], value |-> dict[keys[i]]]]

FromMembers(members) ==
    [k \in {members[i].name : i \in 1..Len(members)} |->
        members[CHOOSE i \in 1..Len(members) :
                    /\ members[i].name = k
                    /\ \A j \in (i + 1)..Len(members) : members[j].name # k].value]

VideoInfoKeys == <<"total_frames", "fps", "duration">>

SummaryKeys == <<"total_frames", "processed_frames", "frame_step", "unique_potholes", "total_detections", "frames_with_detections", "detection_rate">>

PotholeKeys == <<"pothole_id", "first_detected_frame", "first_detected_time", "confidence">>

DetectionKeys == <<"frame_id", "pothole_id", "confidence">>

FrameKeys == <<"frame_id", "speed_kmh", "roi_ratio", "potholes">>

ResultsKeys == <<"video_id", "speed_kmh", "video_info", "summary", "pothole_list", "frames">>

DumpFrame(entry) ==
    Members([entry EXCEPT !.potholes = [k \in 1..Len(entry.potholes) |-> Members(entry.potholes[k], DetectionKeys)]], FrameKeys)

LoadFrame(members) ==
    LET entry == FromMembers(members)
    IN  [entry EXCEPT !.potholes = [k \in 1..Len(entry.potholes) |-> FromMembers(entry.potholes[k])]]

\* json.dump(results, f, indent=2)
JsonDump(results) ==
    Members([results EXCEPT
                !.video_info = Members(results.video_info, VideoInfoKeys),
                !.summary = Members(results.summary, SummaryKeys),
                !.pothole_list = [i \in 1..Len(results.pothole_list) |-> Members(results.pothole_list[i], PotholeKeys)],
                !.frames = [i \in 1..Len(results.frames) |-> DumpFrame(results.frames[i])]],
            ResultsKeys)

\* json.load(f) of a file written whole.
JsonLoad(content) ==
    LET top == FromMembers(content)
    IN  [top EXCEPT
            !.video_info = FromMembers(top.video_info),
            !.summary = FromMembers(top.summary),
            !.pothole_list = [i \in 1..Len(top.pothole_list) |-> FromMembers(top.pothole_list[i])],
            !.frames = [i \in 1..Len(top.frames) |-> LoadFrame(top.frames[i])]]

\* asyncio.run_coroutine_threadsafe(manager.send_message(video_id, event), loop)
Marshal(event) ==
    /\ loop_queue' = Append(loop_queue, event)
    /\ emitted' = Append(emitted, event)

\* ------------------------------------------------------------ the worker thread
\* _process_video_blocking runs on a pool thread, concurrently with the event
\* loop: each action below ends at one access to state shared with the loop
\* (the status map, the results map, the result file, the loop's queue).

\* Lines 220-233: the first status event.
W_Start ==
    /\ worker_pc = "submitted"
    /\ Marshal(Event("status", "processing", 0, "Loading model..."))
    /\ worker_pc' = "open"
    /\ UNCHANGED <<input, upload_pc, wrapper_pc, workerVars, storeVars, connVars>>

\* Lines 235-279: open the source, read its metadata, send the second status
\* event, initialise the accumulators.
W_Open ==
    /\ worker_pc = "open"
    /\ IF input.opens
       THEN /\ Marshal(Event("status", "processing", 5, "Model loaded"))
            /\ worker_pc' = "loop"
            /\ exc' = exc
       ELSE /\ exc' = "Could not open video"
            /\ worker_pc' = "except"
            /\ UNCHANGED <<loop_queue, emitted>>
    /\ frame_count' = 0
    /\ processed_frame_count' = 0
    /\ last_progress' = 0
    /\ total_detections' = 0
    /\ pothole_tracker' = EmptyDict
    /\ confirmed_potholes' = << >>
    /\ frames' = << >>
    /\ observed' = EmptyDict
    /\ det_raised' = FALSE
    /\ det_untracked' = 0
    /\ UNCHANGED <<input, upload_pc, wrapper_pc, storeVars, connVars>>

\* Lines 281-311: one pass of the frame loop, up to the write of the progress
\* into the status map (a write in place of one key of the job's record).
W_Frame ==
    /\ worker_pc = "loop"
    /\ IF frame_count >= input.nframes
       THEN \* ret is False: break, cap.release()
            /\ worker_pc' = "store"
            /\ UNCHANGED <<workerVars, processing_status>>
       ELSE IF (frame_count + 1) % FRAME_STEP # 0
       THEN \* a skipped frame
            /\ frame_count' = frame_count + 1
            /\ worker_pc' = "loop"
            /\ UNCHANGED <<exc, processed_frame_count, last_progress, total_detections, pothole_tracker, confirmed_potholes, frames, observed, det_raised, det_untracked, processing_status>>
       ELSE \E det \in DetectorResults(input.stub, frame_count + 1, get_adaptive_params(input.speed_kmh).pothole_conf) :
            LET fc == frame_count + 1
                processed == processed_frame_count + 1
                r == detect_frame_with_roi(det, fc, frames, pothole_tracker, confirmed_potholes, observed, CurrentTime(fc, input.fps), input.speed_kmh, input.fps)
            IN  /\ frame_count' = fc
                /\ processed_frame_count' = processed
                /\ frames' = r.frames
                /\ pothole_tracker' = r.tracker
                /\ confirmed_potholes' = r.confirmed
                /\ observed' = r.observed
                /\ det_raised' = (det.raise_after >= 0)
                /\ det_untracked' = r.n_untracked
                /\ total_detections' = total_detections + r.n_potholes
                /\ last_progress' = last_progress
                /\ IF input.total_frames = 0
                   THEN \* total_frames / FRAME_STEP is 0.0: ZeroDivisionError
                        /\ exc' = "float division by zero"
                        /\ worker_pc' = "except"
                        /\ UNCHANGED processing_status
                   ELSE IF ShouldReport(CurrentProgress(processed, input.total_frames), last_progress)
                   THEN /\ processing_status' = [processing_status EXCEPT ![VIDEO].progress = CurrentProgress(processed, input.total_frames)]
                        /\ worker_pc' = "send_progress"
                        /\ exc' = exc
                   ELSE /\ worker_pc' = "loop"
                        /\ UNCHANGED <<exc, processing_status>>
    /\ UNCHANGED <<input, upload_pc, wrapper_pc, detection_results, result_files, connVars, loop_queue, emitted>>

\* Lines 312-325: the progress event, then last_progress = current_progress.
W_SendProgress ==
    /\ worker_pc = "send_progress"
    /\ LET current_progress == CurrentProgress(processed_frame_count, input.total_frames)
       IN  /\ Marshal([Event("progress", "", current_progress, "Frame") EXCEPT
                          !.unique_potholes = Len(confirmed_potholes),
                          !.total_detections = total_detections])
           /\ last_progress' = current_progress
    /\ worker_pc' = "loop"
    /\ UNCHANGED <<input, upload_pc, wrapper_pc, exc, frame_count, processed_frame_count, total_detections, pothole_tracker, confirmed_potholes, frames, observed, det_raised, det_untracked, storeVars, connVars>>

\* Mutant: the report not put into the map.
StoredReportForgotten(memory, results) == memory

\* detection_results[video_id] = results
StoredReport(memory, results) == DictPut(memory, VIDEO, results)

\* Lines 329-379: aggregate, then detection_results[video_id] = results.
W_Store ==
    /\ worker_pc = "store"
    /\ detection_results' = StoredReport(detection_results, BuildResults)
    /\ worker_pc' = "write_file"
    /\ UNCHANGED <<input, upload_pc, wrapper_pc, workerVars, processing_status, result_files, connVars, loop_queue, emitted>>

\* What open(result_file, "w") and json.dump can do on the job's disk.
WriteOutcomes == IF input.disk_fails THEN {"ok", "open_fails", "dump_fails"} ELSE {"ok"}

\* Lines 381-383: the result file.  A failed open leaves the file as it was; a
\* failed dump leaves a file that was created and holds a cut serialisation.
W_WriteFile ==
    /\ worker_pc = "write_file"
    /\ \E outcome \in WriteOutcomes :
        IF outcome = "ok"
        THEN /\ result_files' = DictPut(result_files, VIDEO, [complete |-> TRUE, content |-> JsonDump(BuildResults)])
             /\ worker_pc' = "set_completed"
             /\ exc' = exc
        ELSE /\ result_files' = IF outcome = "dump_fails"
                                THEN DictPut(result_files, VIDEO, [complete |-> FALSE, content |-> JsonDump(BuildResults)])
                                ELSE result_files
             /\ exc' = "could not write the result file"
             /\ worker_pc' = "except"
    /\ UNCHANGED <<input, upload_pc, wrapper_pc, frame_count, processed_frame_count, last_progress, total_detections, pothole_tracker, confirmed_potholes, frames, observed, det_raised, det_untracked, processing_status, detection_results, connVars, loop_queue, emitted>>

\* Lines 391-396: the status record is replaced.
W_SetCompleted ==
    /\ worker_pc = "set_completed"
    /\ processing_status' = DictPut(processing_status, VIDEO, StatusRecord("completed", 100, "Processing completed successfully"))
    /\ worker_pc' = "send_complete"
    /\ UNCHANGED <<input, upload_pc, wrapper_pc, workerVars, detection_results, result_files, connVars, loop_queue, emitted>>

\* Lines 398-412: the complete event, then return.
W_SendComplete ==
    /\ worker_pc = "send_complete"
    /\ Marshal([Event("complete", "completed", 100, "Processing completed successfully") EXCEPT !.summary = BuildResults.summary])
    /\ worker_pc' = "returned"
    /\ UNCHANGED <<input, upload_pc, wrapper_pc, workerVars, storeVars, connVars>>

\* Lines 414-421: the except block replaces the status record.
W_Except ==
    /\ worker_pc = "except"
    /\ processing_status' = DictPut(processing_status, VIDEO, StatusRecord("error", 0, exc))
    /\ worker_pc' = "except_send"
    /\ UNCHANGED <<input, upload_pc, wrapper_pc, workerVars, detection_results, result_files, connVars, loop_queue, emitted>>

\* Lines 423-435: the error event (it carries no progress), then raise.
W_ExceptSend ==
    /\ worker_pc = "except_send"
    /\ Marshal(Event("error", "error", -1, exc))
    /\ worker_pc' = "raised"
    /\ UNCHANGED <<input, upload_pc, wrapper_pc, workerVars, storeVars, connVars>>

Worker == W_Start \/ W_Open \/ W_Frame \/ W_SendProgress \/ W_Store \/ W_WriteFile \/ W_SetCompleted \/ W_SendComplete \/ W_Except \/ W_ExceptSend

\* ------------------------------------------------------------ the listener manager

\* Mutant: a failed send leaves the job's entry in place.
disconnectNothing(connections, video_id) == connections

\* ConnectionManager.disconnect: the job's entry goes, whoever it holds.
disconnect(connections, video_id) ==
    IF video_id \in DOMAIN connections THEN DictDel(connections, video_id) ELSE connections

\* send_json succeeds on a connection whose client is there and whose handler
\* has not returned; otherwise it raises.
TransportUp(c) == c.client = "open" /\ c.pc # "closed"

\* ConnectionManager.send_message up to the await of send_json: nothing
\* without a listener; the frame of a send on a live transport goes out at the
\* call (the listener has it, in the order of the calls) and the coroutine is
\* suspended until the transport is done with it; a send on a dead transport
\* raises at once, which is swallowed and the job's entry removed.
SendMessage(event) ==
    IF VIDEO \in DOMAIN active_connections
    THEN LET w == active_connections[VIDEO]
         IN  IF TransportUp(conn[w])
             THEN /\ conn' = [conn EXCEPT ![w].log = Append(@, event), ![w].inflight = @ + 1]
                  /\ active_connections' = active_connections
             ELSE /\ conn' = conn
                  /\ active_connections' = disconnect(active_connections, VIDEO)
    ELSE UNCHANGED <<active_connections, conn>>

\* Mutant: the loop runs the newest coroutine first.
NextToRunNewest(queue) == Len(queue)

\* The event loop runs the callbacks handed over by call_soon_threadsafe in
\* the order they were handed over: the oldest first.
NextToRun(queue) == 1

\* The event loop starts the next coroutine handed over by the worker and
\* runs it up to its suspension or its end.
L_Deliver ==
    /\ loop_queue # << >>
    /\ LET k == NextToRun(loop_queue)
       IN  /\ SendMessage(loop_queue[k])
           /\ loop_queue' = SubSeq(loop_queue, 1, k - 1) \o SubSeq(loop_queue, k + 1, Len(loop_queue))
    /\ UNCHANGED <<input, upload_pc, wrapper_pc, worker_pc, workerVars, storeVars, attached, emitted>>

\* A suspended send_message resumes: send_json returns, or, on a transport
\* that died meanwhile, returns or raises; the exception is swallowed and the
\* job's entry removed (lines 33-35), whoever it holds by now.
L_SendDone(w) ==
    /\ conn[w].inflight > 0
    /\ conn' = [conn EXCEPT ![w].inflight = @ - 1]
    /\ \E raises \in (IF TransportUp(conn[w]) THEN {FALSE} ELSE BOOLEAN) :
          active_connections' = IF raises THEN disconnect(active_connections, VIDEO)
                                ELSE active_connections
    /\ UNCHANGED <<input, upload_pc, wrapper_pc, worker_pc, workerVars, storeVars, attached, loop_queue, emitted>>

\* ------------------------------------------------------------ upload and wrapper

\* upload_video up to the sleep: validate, save, status queued, create_task.
U_Upload ==
    /\ upload_pc = "idle"
    /\ IF input.upload = "ok"
       THEN /\ processing_status' = DictPut(processing_status, VIDEO, StatusRecord("queued", 0, "Video uploaded, waiting to process..."))
            /\ wrapper_pc' = "created"
            /\ upload_pc' = "sleeping"
       ELSE \* HTTPException 400 (extension) or 500 (save): no job
            /\ upload_pc' = "rejected"
            /\ UNCHANGED <<processing_status, wrapper_pc>>
    /\ UNCHANGED <<input, worker_pc, workerVars, detection_results, result_files, connVars, loop_queue, emitted>>

\* upload_video after asyncio.sleep(0.1): the queued event, sent directly.  The
\* wrapper task was made ready before the timer was set, so it has started.
U_Finish ==
    /\ upload_pc = "sleeping"
    /\ wrapper_pc # "created"
    /\ SendMessage(Event("status", "queued", 0, "Video uploaded, starting processing..."))
    /\ upload_pc' = "done"
    /\ UNCHANGED <<input, wrapper_pc, worker_pc, workerVars, storeVars, attached, loop_queue, emitted>>

\* process_video up to the await: status processing, run_in_executor.
P_Start ==
    /\ wrapper_pc = "created"
    /\ processing_status' = DictPut(processing_status, VIDEO, StatusRecord("processing", 0, "Starting processing..."))
    /\ worker_pc' = "submitted"
    /\ wrapper_pc' = "awaiting"
    /\ UNCHANGED <<input, upload_pc, workerVars, detection_results, result_files, connVars, loop_queue, emitted>>

\* Mutant: the wrapper's except block runs after every job.
WrapperCatchesAlways(pc) == TRUE

\* The await of run_in_executor raises what the worker raised: the wrapper's
\* except block runs for a worker that raised, and for no other.
WrapperCatches(pc) == pc = "raised"

\* process_video after the await: the worker returned, or raised and the
\* wrapper's except block replaces the status record.
P_Finish ==
    /\ wrapper_pc = "awaiting"
    /\ worker_pc \in {"returned", "raised"}
    /\ processing_status' = IF WrapperCatches(worker_pc)
                            THEN DictPut(processing_status, VIDEO, StatusRecord("error", 0, exc))
                            ELSE processing_status
    /\ wrapper_pc' = "done"
    /\ UNCHANGED <<input, upload_pc, worker_pc, workerVars, detection_results, result_files, connVars, loop_queue, emitted>>

\* ------------------------------------------------------------ results query

\* Mutant: no fallback to the file.
get_resultsMemoryOnly(memory, files) ==
    IF VIDEO \in DOMAIN memory
    THEN [reply |-> "report", value |-> memory[VIDEO]]
    ELSE [reply |-> "not_found", value |-> << >>]

\* get_results: memory first, then the file, else 404.  A file holding a cut
\* serialisation makes json.load raise (a 500).
get_results(memory, files) ==
    IF VIDEO \in DOMAIN memory
    THEN [reply |-> "report", value |-> memory[VIDEO]]
    ELSE IF VIDEO \in DOMAIN files
         THEN (IF files[VIDEO].complete
               THEN [reply |-> "report", value |-> JsonLoad(files[VIDEO].content)]
               ELSE [reply |-> "error", value |-> << >>])
         ELSE [reply |-> "not_found", value |-> << >>]

get_results_reply == get_results(detection_results, result_files).reply

\* What a successful get_results returns.
get_results_value == get_results(detection_results, result_files).value

\* get_status: 404 for an id the status map does not hold.
get_status_reply ==
    IF VIDEO \in DOMAIN processing_status THEN processing_status[VIDEO].status ELSE "not_found"

\* GET /results/{video_id}: a read from the file is kept in memory.
G_Results ==
    /\ detection_results' = IF get_results_reply = "report"
                            THEN DictPut(detection_results, VIDEO, get_results_value)
                            ELSE detection_results
    /\ UNCHANGED <<input, upload_pc, wrapper_pc, worker_pc, workerVars, processing_status, result_files, connVars, loop_queue, emitted>>

\* ------------------------------------------------------------ the live channel
\* websocket_endpoint, one handler per connection, on the event loop.  A
\* handler's log holds the job events its client received, in order
\* (heartbeats are sent and not logged).

\* A status event sent by the handler itself when the job has a status record.
HandlerStatus(c) ==
    IF VIDEO \in DOMAIN processing_status /\ TransportUp(c)
    THEN [c EXCEPT !.log = Append(@, StatusEvent(processing_status[VIDEO]))]
    ELSE c

JobDone ==
    /\ VIDEO \in DOMAIN processing_status
    /\ processing_status[VIDEO].status \in {"completed", "error"}

\* Lines 57-65: accept, register (replacing any listener of the job), send the
\* status at hand.  Connections are numbered in the order they arrive.
H_Connect(w) ==
    /\ conn[w].pc = "new"
    /\ w <= input.clients
    /\ \A u \in Connections : u < w => conn[u].pc # "new"
    /\ active_connections' = DictPut(active_connections, VIDEO, w)
    /\ attached' = Append(attached, w)
    /\ conn' = [conn EXCEPT ![w] = [HandlerStatus(@) EXCEPT !.pc = "check"]]
    /\ UNCHANGED <<input, upload_pc, wrapper_pc, worker_pc, workerVars, storeVars, loop_queue, emitted>>

\* The top of the loop (lines 68-78) and the finally block (100-101): for a
\* finished job the final status, break, and the job's listener is detached;
\* otherwise the handler waits for the client (line 83).
CheckDone(w) ==
    IF JobDone
    THEN /\ conn' = [conn EXCEPT ![w] = [HandlerStatus(@) EXCEPT !.pc = "closed", !.closed_by = "final"]]
         /\ active_connections' = disconnect(active_connections, VIDEO)
    ELSE /\ conn' = [conn EXCEPT ![w].pc = "recv"]
         /\ active_connections' = active_connections

\* The first pass of the loop, after the status sent on connecting.
H_Check(w) ==
    /\ conn[w].pc = "check"
    /\ CheckDone(w)
    /\ UNCHANGED <<input, upload_pc, wrapper_pc, worker_pc, workerVars, storeVars, attached, loop_queue, emitted>>

\* Lines 81-94, then the top of the loop: a client message arrives, or the
\* timeout passes and the heartbeat is sent; the short sleep; the check.  The
\* step stands at the check: nothing before it reads or writes shared state.
H_Receive(w) ==
    /\ conn[w].pc = "recv"
    /\ conn[w].client = "open"
    /\ CheckDone(w)
    /\ UNCHANGED <<input, upload_pc, wrapper_pc, worker_pc, workerVars, storeVars, attached, loop_queue, emitted>>

\* Lines 90-91 and 100-101: receive_text raises on a client that left: break,
\* and the finally block detaches the job's listener.
H_Disconnected(w) ==
    /\ conn[w].pc = "recv"
    /\ conn[w].client = "gone"
    /\ conn' = [conn EXCEPT ![w].pc = "closed", ![w].closed_by = "client"]
    /\ active_connections' = disconnect(active_connections, VIDEO)
    /\ UNCHANGED <<input, upload_pc, wrapper_pc, worker_pc, workerVars, storeVars, attached, loop_queue, emitted>>

\* The client closes its end, or the network drops it, while the handler
\* waits for it.
C_Leave(w) ==
    /\ conn[w].pc = "recv"
    /\ conn[w].client = "open"
    /\ input.clients_leave
    /\ conn' = [conn EXCEPT ![w].client = "gone"]
    /\ UNCHANGED <<input, upload_pc, wrapper_pc, worker_pc, workerVars, storeVars, active_connections, attached, loop_queue, emitted>>

Handler == \E w \in Connections : H_Connect(w) \/ H_Check(w) \/ H_Receive(w) \/ H_Disconnected(w) \/ C_Leave(w)

\* ------------------------------------------------------------ restart

\* The process restarts: the module-level maps, the manager, the tasks and the
\* pool thread are gone with it, open connections break, the result files stay.
R_Restart ==
    /\ input.restarts
    /\ upload_pc \in {"sleeping", "done"}
    /\ upload_pc' = "gone"
    /\ wrapper_pc' = "gone"
    /\ worker_pc' = "gone"
    /\ exc' = ""
    /\ frame_count' = 0
    /\ processed_frame_count' = 0
    /\ last_progress' = 0
    /\ total_detections' = 0
    /\ pothole_tracker' = EmptyDict
    /\ confirmed_potholes' = << >>
    /\ frames' = << >>
    /\ observed' = EmptyDict
    /\ det_raised' = FALSE
    /\ det_untracked' = 0
    /\ processing_status' = EmptyDict
    /\ detection_results' = EmptyDict
    /\ active_connections' = EmptyDict
    /\ loop_queue' = << >>
    /\ conn' = [w \in Connections |->
                  IF conn[w].pc \in {"check", "recv"}
                  THEN [conn[w] EXCEPT !.pc = "closed", !.closed_by = "restart", !.inflight = 0]
                  ELSE [conn[w] EXCEPT !.inflight = 0]]
    /\ UNCHANGED <<input, result_files, attached, emitted>>

\* ------------------------------------------------------------ inputs

NoStub == [kind |-> "none", tracks |-> {}, confs |-> {}, untracked |-> FALSE, raises |-> FALSE, track_id |-> 0, conf |-> 0, period |-> 0, dense_from |-> 0]

ScriptedStub(track_id, conf, period, dense_from) ==
    [NoStub EXCEPT !.kind = "scripted", !.track_id = track_id, !.conf = conf, !.period = period, !.dense_from = dense_from]

AnyStub(tracks, confs, untracked, raises) ==
    [NoStub EXCEPT !.kind = "any", !.tracks = tracks, !.confs = confs, !.untracked = untracked, !.raises = raises]

\* A well-formed upload of a video of n frames whose decoder reports n frames,
\* on a healthy disk, with no client and no restart.
Video(n, fps, speed_kmh, stub) ==
    [upload |-> "ok", opens |-> TRUE, nframes |-> n, total_frames |-> n, fps |-> fps,
     speed_kmh |-> speed_kmh, stub |-> stub, disk_fails |-> FALSE,
     clients |-> 0, clients_leave |-> FALSE, restarts |-> FALSE]

\* 300 frames at 30 fps, 40 km/h, track 7 at confidence 0.5 in every sampled
\* frame from frame 30 on.
ScenarioInput == Video(300, 30, 40, ScriptedStub(7, 50, 0, 30))

\* A track seen once every 6 frames (1.5 s apart at 4 fps) more often than its
\* history holds, then in every sampled frame.
SparseThenDenseInput ==
    LET sparse == 6 * (TRACK_HISTORY_MAXLEN + 2)
    IN  Video(sparse + 2 * MIN_DETECTION_FRAMES + 2, 4, 40, ScriptedStub(1, 90, 6, sparse))

OpenFails == [Video(MaxConcFrames, 4, 40, NoStub) EXCEPT !.opens = FALSE]

\* The decoder reports a frame count of 0 for a video that has frames.
ZeroFrameCount == [Video(MaxConcFrames, 4, 40, NoStub) EXCEPT !.total_frames = 0]

DiskFails == [Video(MaxConcFrames, 4, 40, NoStub) EXCEPT !.disk_fails = TRUE]

BadExtension == [Video(MaxConcFrames, 4, 40, NoStub) EXCEPT !.upload = "bad_extension"]

FailingInputs == {OpenFails, ZeroFrameCount, DiskFails, BadExtension}

\* The decoder reports fewer frames than the video has (CAP_PROP_FRAME_COUNT is
\* read from the container's metadata), or an odd number of frames.
UnderReported == [Video(2 * MaxConcFrames, 4, 40, NoStub) EXCEPT !.total_frames = MaxConcFrames]

OddFrameCount == Video(2 * MaxConcFrames + 1, 4, 40, NoStub)

MetadataInputs == {UnderReported, OddFrameCount}

\* A short video with one pothole seen in every sampled frame.
ShortVideo == Video(MaxConcFrames, 4, 40, ScriptedStub(1, 90, 0, 0))

\* A video without frames: it opens and the loop ends at once.
EmptyVideo == Video(0, 4, 40, NoStub)

\* A video long enough for its frame log to overflow: one pothole in every
\* sampled frame, stored from its third observation on.
LongVideo == Video(FRAME_STEP * (MAX_STORED_FRAMES + MIN_DETECTION_FRAMES + 2), 8, 40, ScriptedStub(1, 90, 0, 0))

\* A video in which the detector never finds anything.
QuietVideo == Video(MaxFrames, 8, 40, NoStub)

\* One pothole in every sampled frame, at every speed.
SpeedInputs == {Video(FRAME_STEP * MIN_DETECTION_FRAMES, 8, speed, ScriptedStub(1, 90, 0, 0)) : speed \in 0..MaxSpeed}

\* Detector-driven runs: one track seen or not in each sampled frame, at
\* several frame rates; several tracks in any order; one track with
\* confidences on both sides of a threshold, results without track ids and
\* exceptions, at a low and a high speed; several tracks with exceptions
\* between the boxes of a result.
PipelineInputs ==
    {Video(MaxFrames, fps, 40, AnyStub({1}, {90}, FALSE, FALSE)) : fps \in {0, 2, 4, 8}}
    \cup {Video(2 * MIN_DETECTION_FRAMES + 2, 8, 40, AnyStub(1..MaxTracks, {90}, FALSE, FALSE))}
    \cup {Video(2 * MIN_DETECTION_FRAMES + 2, 8, speed, AnyStub({1}, {30, 90}, TRUE, TRUE)) : speed \in {20, 70}}
    \cup {Video(2 * MIN_DETECTION_FRAMES, 8, 40, AnyStub(1..MaxTracks, {90}, FALSE, TRUE))}
    \cup {ScenarioInput, SparseThenDenseInput}
    \cup FailingInputs
    \cup MetadataInputs
    \cup SpeedInputs
    \cup {QuietVideo}

\* A video whose report holds a pothole and frame-log entries, in a process
\* that may restart.
RestartedVideo == [Video(FRAME_STEP * (MIN_DETECTION_FRAMES + 1), 4, 40, ScriptedStub(1, 90, 0, 0)) EXCEPT !.restarts = TRUE]

\* One client that may leave, for every kind of run; two clients for a run
\* without frames; a restart for the short video and for one with a pothole.
ConcurrencyInputs ==
    {[v EXCEPT !.clients = 1, !.clients_leave = TRUE] : v \in {ShortVideo} \cup FailingInputs}
    \cup {[EmptyVideo EXCEPT !.clients = 2, !.clients_leave = TRUE]}
    \cup {[ShortVideo EXCEPT !.clients = 1, !.restarts = TRUE]}
    \cup {RestartedVideo}

\* ------------------------------------------------------------ specifications

InitState ==
    /\ upload_pc = "idle"
    /\ wrapper_pc = "none"
    /\ worker_pc = "idle"
    /\ exc = ""
    /\ frame_count = 0
    /\ processed_frame_count = 0
    /\ last_progress = 0
    /\ total_detections = 0
    /\ pothole_tracker = EmptyDict
    /\ confirmed_potholes = << >>
    /\ frames = << >>
    /\ observed = EmptyDict
    /\ det_raised = FALSE
    /\ det_untracked = 0
    /\ processing_status = EmptyDict
    /\ detection_results = EmptyDict
    /\ result_files = EmptyDict
    /\ active_connections = EmptyDict
    /\ loop_queue = << >>
    /\ emitted = << >>
    /\ conn = [w \in Connections |-> [pc |-> "new", client |-> "open", closed_by |-> "", log |-> << >>, inflight |-> 0]]
    /\ attached = << >>

\* The whole service: upload, wrapper, worker, event loop, live channel,
\* results query and restart.
Init == input \in ConcurrencyInputs /\ InitState

Next == U_Upload \/ U_Finish \/ P_Start \/ P_Finish \/ Worker \/ L_Deliver \/ Handler \/ G_Results \/ R_Restart
        \/ (\E w \in Connections : L_SendDone(w))

Spec == Init /\ [][Next]_vars

\* The pipeline of one job with no client attached: detector results, videos
\* and failures drawn widely.
InitPipeline == input \in PipelineInputs /\ InitState

NextPipeline == U_Upload \/ U_Finish \/ P_Start \/ P_Finish \/ Worker \/ L_Deliver

SpecPipeline == InitPipeline /\ [][NextPipeline]_vars

\* The pipeline on the long video, and on the failing inputs.
InitLongVideo == input \in {LongVideo} \cup FailingInputs /\ InitState

SpecLongVideo == InitLongVideo /\ [][NextPipeline]_vars

\* The service without restarts, its threads and its event loop scheduled
\* fairly: the pool runs a submitted job (one job, so a free thread), the
\* loop runs every ready task and callback.
LiveInputs ==
    {[v EXCEPT !.clients = 1, !.clients_leave = TRUE] : v \in {ShortVideo, OpenFails}}
    \cup FailingInputs \cup MetadataInputs
    \cup {Video(2 * MaxConcFrames, 8, 40, AnyStub({1}, {90}, TRUE, TRUE))}

InitLive == input \in LiveInputs /\ InitState

NextLive == U_Upload \/ U_Finish \/ P_Start \/ P_Finish \/ Worker \/ L_Deliver \/ Handler \/ G_Results
            \/ (\E w \in Connections : L_SendDone(w))

SpecLive ==
    /\ InitLive
    /\ [][NextLive]_vars
    /\ WF_vars(Worker)
    /\ WF_vars(P_Start)
    /\ WF_vars(P_Finish)
    /\ WF_vars(L_Deliver)

\* ------------------------------------------------------------ properties

\* The track ids the confirmed dict holds.
ConfirmedIds == {confirmed_potholes[i].key : i \in 1..Len(confirmed_potholes)}

\* At the i-th observation of a track, at least 3 of the timestamps up to it
\* lie within 1.0 of it (timestamps are numerators over fps).
Qualifies(obs, i) == Cardinality({j \in 1..i : obs[i] - obs[j] <= input.fps}) >= 3

FirstQualifying(obs) ==
    CHOOSE i \in 1..Len(obs) : Qualifies(obs, i) /\ \A k \in 1..(i - 1) : ~Qualifies(obs, k)

EverQualifies(obs) == \E i \in 1..Len(obs) : Qualifies(obs, i)

\* C1: over strictly increasing timestamps (fps > 0) a track is in the
\* confirmed set exactly from the first observation at which at least 3 of
\* its timestamps so far lie within 1.0 of it: not before, with that
\* observation's timestamp as first-seen time, and from then on whatever gaps
\* follow, down to the report's pothole list.
C1_ConfirmedAtFirstWindow ==
    input.fps > 0 =>
        /\ ConfirmedIds \subseteq DOMAIN observed
        /\ \A id \in DOMAIN observed :
              IF EverQualifies(observed[id])
              THEN /\ OrderedHas(confirmed_potholes, id)
                   /\ OrderedGet(confirmed_potholes, id).first_seen_time
                        = observed[id][FirstQualifying(observed[id])]
              ELSE ~OrderedHas(confirmed_potholes, id)
        /\ VIDEO \in DOMAIN detection_results =>
              {e.pothole_id : e \in {detection_results[VIDEO].pothole_list[i] :
                                       i \in 1..Len(detection_results[VIDEO].pothole_list)}}
                = {id \in DOMAIN observed : EverQualifies(observed[id])}

\* A track confirmed at its fourth observation or later (the first three were
\* too far apart), and seen again after a gap longer than the window.
C1_Witness ==
    /\ input.fps > 0
    /\ \E id \in DOMAIN observed :
          LET obs == observed[id]
          IN  /\ OrderedHas(confirmed_potholes, id)
              /\ FirstQualifying(obs) > 3
              /\ FirstQualifying(obs) < Len(obs)
              /\ obs[Len(obs)] - obs[Len(obs) - 1] > input.fps

\* C2: a step never changes or removes a record of the confirmed dict: the
\* records present stay where they are, with the same first_seen_frame,
\* first_seen_time and confidence.
C2_RecordImmutable ==
    [][\A i \in 1..Len(confirmed_potholes) :
          /\ i <= Len(confirmed_potholes')
          /\ confirmed_potholes'[i] = confirmed_potholes[i]]_vars

\* A confirmed track that, after a gap longer than the window, has again three
\* observations inside one window, the last with another confidence than the
\* one recorded.
C2_Witness ==
    /\ input.fps > 0
    /\ \E id \in DOMAIN observed :
          LET obs == observed[id]
              n == Len(obs)
          IN  /\ OrderedHas(confirmed_potholes, id)
              /\ n >= 6
              /\ obs[n - 2] - OrderedGet(confirmed_potholes, id).first_seen_time > input.fps
              /\ obs[n] - obs[n - 2] <= input.fps

\* A confirmed track stored in a later frame with another confidence than the
\* one its record holds.
C2_WitnessConfidence ==
    \E id \in ConfirmedIds : \E i \in 1..Len(frames) : \E k \in 1..Len(frames[i].potholes) :
        /\ frames[i].potholes[k].pothole_id = id
        /\ frames[i].frame_id > OrderedGet(confirmed_potholes, id).first_seen_frame
        /\ frames[i].potholes[k].confidence # OrderedGet(confirmed_potholes, id).confidence

\* C3: the pothole list of a stored report is ascending by
\* first_detected_frame and holds no pothole id twice.
C3_ListSortedNoDuplicates ==
    VIDEO \in DOMAIN detection_results =>
        LET list == detection_results[VIDEO].pothole_list
        IN  /\ \A i, j \in 1..Len(list) :
                  i < j => list[i].first_detected_frame <= list[j].first_detected_frame
            /\ \A i, j \in 1..Len(list) : i # j => list[i].pothole_id # list[j].pothole_id

\* A report whose list holds two potholes confirmed in the same frame, the
\* larger id first.
C3_Witness ==
    /\ VIDEO \in DOMAIN detection_results
    /\ LET list == detection_results[VIDEO].pothole_list
       IN  /\ Len(list) >= 2
           /\ list[1].first_detected_frame = list[2].first_detected_frame
           /\ list[1].pothole_id > list[2].pothole_id

\* The events of a type among those the worker handed to the event loop.
EmittedOfType(type) == SelectSeq(emitted, LAMBDA e : e.type = type)

\* The scenario's outcome with pothole 7 first detected in frame f.
ScenarioOutcome(f) ==
    (input = ScenarioInput /\ worker_pc = "returned") =>
        /\ get_adaptive_params(input.speed_kmh) = [roi_ratio |-> 65, pothole_conf |-> 28]
        /\ VIDEO \in DOMAIN detection_results
        /\ LET report == detection_results[VIDEO]
           IN  /\ Len(report.pothole_list) = 1
               /\ report.pothole_list[1].pothole_id = 7
               /\ report.pothole_list[1].first_detected_frame = f
               /\ report.summary.unique_potholes = 1
               /\ \A i \in 1..Len(report.frames) : report.frames[i].roi_ratio = 65
               /\ Len(EmittedOfType("complete")) = 1
               /\ EmittedOfType("complete")[1].summary = report.summary

\* C9 as stated: in the 300-frame, 30 fps, 40 km/h scenario with track 7 in
\* every sampled frame from frame 30 on, the job runs with ROI 0.65 and
\* threshold 0.28, pothole 7 is first detected in frame 32, unique_potholes is
\* 1 and a complete event with that summary is emitted.
C9_ScenarioFrame32 == ScenarioOutcome(32)

\* C9 amended: the same with first-detected frame 34, the third sampled frame
\* (30, 32, 34) in which track 7 is reported.
C9_ScenarioFrame34 == ScenarioOutcome(34)

\* The scenario's job has returned.
C9_Witness ==
    /\ input = ScenarioInput
    /\ worker_pc = "returned"
    /\ processing_status[VIDEO].status = "completed"
    /\ Len(observed[7]) > TRACK_HISTORY_MAXLEN

\* ------------------------------------------------------------ live channel properties

\* The events of a log that carry a progress.
WithProgress(log) == SelectSeq(log, LAMBDA e : e.progress >= 0)

StatusOfJob == IF VIDEO \in DOMAIN processing_status THEN processing_status[VIDEO].status ELSE "unknown"

\* The connection's client has been there throughout (a client that left
\* does not come back).
Healthy(w) == conn[w].client = "open"

\* The connection attached while the job was not finished: the first event it
\* received is not the handler's status of a finished job.
AttachedBeforeFinish(w) ==
    /\ conn[w].log # << >>
    /\ ~(conn[w].log[1].type = "status" /\ conn[w].log[1].status \in {"completed", "error"})

\* C4: the progress values a listener receives for the job never decrease,
\* over status, progress and complete events alike, and once it has received
\* the complete event the last progress it has received is 100.
C4_ProgressNonDecreasing ==
    \A w \in Connections :
        LET p == WithProgress(conn[w].log)
        IN  /\ \A i, j \in 1..Len(p) : i < j => p[i].progress <= p[j].progress
            /\ (\E i \in 1..Len(p) : p[i].type = "complete") => p[Len(p)].progress = 100

\* C5: while the job runs, the connection that attached last, as long as its
\* handler runs and its client is there, is the job's registered listener.
C5_NewestStaysListener ==
    \A w \in Connections :
        (/\ attached # << >>
         /\ w = attached[Len(attached)]
         /\ conn[w].pc \in {"check", "recv"}
         /\ Healthy(w)
         /\ ~JobDone)
        => (VIDEO \in DOMAIN active_connections /\ active_connections[VIDEO] = w)

\* C6: a healthy connection, the only one of the job, attached before the job
\* finished and closed by the server after the job completed, has received
\* the complete event exactly once.
C6_CompleteBeforeClose ==
    \A w \in Connections :
        (/\ attached = <<w>>
         /\ Healthy(w)
         /\ AttachedBeforeFinish(w)
         /\ conn[w].closed_by = "final"
         /\ StatusOfJob = "completed")
        => Len(SelectSeq(conn[w].log, LAMBDA e : e.type = "complete")) = 1

\* C7: get_results returns a report only for a job whose status is completed.
C7_NoReportUnlessCompleted == get_results_reply = "report" => StatusOfJob = "completed"

\* C8: a job whose status is error carries a message and has no report, in
\* memory or on disk.
C8_ErrorLeavesNoReport ==
    StatusOfJob = "error" =>
        /\ processing_status[VIDEO].message # ""
        /\ VIDEO \notin DOMAIN detection_results
        /\ VIDEO \notin DOMAIN result_files

\* C10: when the source does not open, the job's status ends as error, a
\* results query answers not-found, and a healthy connection, the only one of
\* the job, attached before the failure and closed by the server, has
\* received the error event.
C10_OpenFailure ==
    ~input.opens =>
        /\ worker_pc = "raised" => StatusOfJob = "error"
        /\ get_results_reply = "not_found"
        /\ \A w \in Connections :
              (/\ attached = <<w>>
               /\ Healthy(w)
               /\ AttachedBeforeFinish(w)
               /\ conn[w].closed_by = "final")
              => \E i \in 1..Len(conn[w].log) : conn[w].log[i].type = "error"

\* The parts of C10 the code keeps: the status and the results query.
C10_StatusAndQuery ==
    ~input.opens =>
        /\ worker_pc = "raised" => StatusOfJob = "error"
        /\ get_results_reply = "not_found"

\* ------------------------------------------------------------ delivery order

\* The events of a connection's log that the worker handed to the event loop
\* (the handler's and the upload's own status events are not among them: they
\* carry other messages).
WorkerEvents(log) == SelectSeq(log, LAMBDA e : \E i \in 1..Len(emitted) : emitted[i] = e)

\* The place of an event in the order of emission (the events of one job are
\* pairwise distinct).
EmissionIndex(e) == CHOOSE i \in 1..Len(emitted) : emitted[i] = e

\* C11: the worker's events reach a listener in the order the worker emitted
\* them: of two events in a connection's log the one received first was
\* emitted first, also while earlier sends are still suspended.
C11_DeliveredInEmissionOrder ==
    \A w \in Connections :
        LET d == WorkerEvents(conn[w].log)
        IN  \A i, j \in 1..Len(d) : i < j => EmissionIndex(d[i]) < EmissionIndex(d[j])

\* A listener that has received three of the worker's events, the sends of
\* two of them still suspended at the transport.
C11_Witness ==
    \E w \in Connections :
        /\ Len(WorkerEvents(conn[w].log)) >= 3
        /\ conn[w].inflight >= 2
        /\ TransportUp(conn[w])

\* ------------------------------------------------------------ a frame whose detection raises

\* The step handles a sampled frame whose detection step raised.
RaisedFrameStep == frame_count' = frame_count + 1 /\ processed_frame_count' = processed_frame_count + 1 /\ det_raised'

\* C12: a sampled frame whose detection step raises adds nothing to
\* total_detections, no confirmed pothole and no frame-log entry, and does not
\* send the job to its except block (the decoder's frame count being sound).
C12_RaisedFrameAddsNothing ==
    [][(RaisedFrameStep /\ input.total_frames > 0) =>
          /\ total_detections' = total_detections
          /\ confirmed_potholes' = confirmed_potholes
          /\ frames' = frames
          /\ worker_pc' \in {"loop", "send_progress"}]_vars

\* The parts of C12 the code keeps: no frame-log entry, and the job goes on.
C12_RaisedFrameGoesOn ==
    [][(RaisedFrameStep /\ input.total_frames > 0) =>
          /\ frames' = frames
          /\ worker_pc' \in {"loop", "send_progress"}]_vars

\* ------------------------------------------------------------ the frame log's bound

\* C13: the frame log never holds more than 1500 entries; a step that adds an
\* entry to a log of 1500 removes exactly the oldest and keeps the others in
\* their order, below 1500 it removes none; a frame with a stored detection
\* (tracked, its handling not raising) always adds its entry; and no step
\* removes or changes a record of the confirmed dict.
C13_FrameLogBounded ==
    [][/\ Len(frames') <= MAX_STORED_FRAMES
       /\ (total_detections' > total_detections /\ ~det_raised' /\ ~input.stub.untracked) =>
             frames' # frames
       /\ frames' # frames =>
             /\ frames'[Len(frames')].frame_id = frame_count'
             /\ IF Len(frames) = MAX_STORED_FRAMES
                THEN SubSeq(frames', 1, Len(frames') - 1) = Tail(frames)
                ELSE SubSeq(frames', 1, Len(frames') - 1) = frames
       /\ \A i \in 1..Len(confirmed_potholes) :
             i <= Len(confirmed_potholes') /\ confirmed_potholes'[i] = confirmed_potholes[i]]_vars

\* A stored report whose frame log is full and has lost the entry of the
\* frame in which its pothole was first detected, the pothole still listed.
C13_Witness ==
    /\ VIDEO \in DOMAIN detection_results
    /\ LET report == detection_results[VIDEO]
       IN  /\ Len(report.frames) = MAX_STORED_FRAMES
           /\ Len(report.pothole_list) = 1
           /\ report.frames[1].frame_id > report.pothole_list[1].first_detected_frame + FRAME_STEP
           /\ report.summary.unique_potholes = 1

\* ------------------------------------------------------------ what the frame log holds

\* Every entry of the frame log has detections, each of a track whose record
\* was in the confirmed dict when the entry was appended.
FrameLogOfConfirmed ==
    \A i \in 1..Len(frames) :
        /\ frames[i].potholes # << >>
        /\ \A k \in 1..Len(frames[i].potholes) :
              LET id == frames[i].potholes[k].pothole_id
              IN  /\ OrderedHas(confirmed_potholes, id)
                  /\ OrderedGet(confirmed_potholes, id).first_seen_frame <= frames[i].frame_id

\* A sampled frame whose result carries no track ids adds no frame-log entry
\* and no confirmed pothole, and its boxes are counted in total_detections.
UntrackedCountedNotStored ==
    (processed_frame_count' = processed_frame_count + 1 /\ det_untracked' > 0) =>
        /\ frames' = frames
        /\ confirmed_potholes' = confirmed_potholes
        /\ pothole_tracker' = pothole_tracker
        /\ total_detections' = total_detections + det_untracked'

\* C14: every frame-log entry has a non-empty list of detections, each with a
\* track id that was confirmed when the entry was appended; detections
\* without a track id are never stored and confirm nothing, and are counted
\* in total_detections.
C14_FrameLogHoldsConfirmedOnly == []FrameLogOfConfirmed /\ [][UntrackedCountedNotStored]_vars

\* A job with a confirmed pothole and frame-log entries whose last sampled
\* frame had a box without a track id: counted, and stored nowhere.
C14_Witness ==
    /\ det_untracked > 0
    /\ frames # << >>
    /\ confirmed_potholes # << >>
    /\ frames[Len(frames)].frame_id < frame_count
    /\ total_detections > Len(frames)

\* ------------------------------------------------------------ the stored progress

\* C15: the progress in the job's status record never decreases from one
\* state to the next, on the way to completed and on the way to error.
C15_StoredProgressNonDecreasing ==
    [][(VIDEO \in DOMAIN processing_status /\ VIDEO \in DOMAIN processing_status') =>
          processing_status'[VIDEO].progress >= processing_status[VIDEO].progress]_vars

\* The part of C15 the code keeps: the same while the job is not in error.
C15_NonDecreasingUnlessError ==
    [][(/\ VIDEO \in DOMAIN processing_status
        /\ VIDEO \in DOMAIN processing_status'
        /\ processing_status'[VIDEO].status # "error") =>
          processing_status'[VIDEO].progress >= processing_status[VIDEO].progress]_vars

\* ------------------------------------------------------------ the range of the progress

\* The progress values of a sequence of events that carry one.
ProgressValues(events) == {events[i].progress : i \in {k \in 1..Len(events) : events[k].progress # -1}}

\* C16: the progress stored for the job and the progress of every event
\* emitted for it lie in 0..100, whatever frame count the decoder reports.
C16_ProgressInRange ==
    /\ VIDEO \in DOMAIN processing_status => processing_status[VIDEO].progress \in 0..100
    /\ ProgressValues(emitted) \subseteq 0..100

\* The part of C16 the code keeps: the same for a video whose decoder reports
\* at least the frames that are read.
C16_InRangeWhenCountSound ==
    input.total_frames >= input.nframes => C16_ProgressInRange

\* ------------------------------------------------------------ a listener that fails

\* The frame loop run on its own, with no event loop and no listener: the
\* accumulators after the first n frames of the job's video, for a detector
\* whose results are fixed per frame.
RECURSIVE SequentialRun(_)
SequentialRun(n) ==
    IF n = 0
    THEN [processed |-> 0, detections |-> 0, tracker |-> EmptyDict, confirmed |-> << >>,
          observed |-> EmptyDict, log |-> << >>]
    ELSE LET before == SequentialRun(n - 1)
         IN  IF n % FRAME_STEP # 0
             THEN before
             ELSE LET det == CHOOSE d \in DetectorResults(input.stub, n, get_adaptive_params(input.speed_kmh).pothole_conf) : TRUE
                      r == detect_frame_with_roi(det, n, before.log, before.tracker, before.confirmed, before.observed, CurrentTime(n, input.fps), input.speed_kmh, input.fps)
                  IN  [processed |-> before.processed + 1,
                       detections |-> before.detections + r.n_potholes,
                       tracker |-> r.tracker, confirmed |-> r.confirmed,
                       observed |-> r.observed, log |-> r.frames]

\* The job ran to its end in this process.
JobReturned == worker_pc = "returned" /\ wrapper_pc # "gone"

\* The outcome of a job that returned is the one of the frame loop run on its
\* own: status completed, the same confirmed potholes, the same report.
OutcomeAsWithoutListener ==
    JobReturned =>
        LET run == SequentialRun(input.nframes)
        IN  /\ processing_status[VIDEO] = StatusRecord("completed", 100, "Processing completed successfully")
            /\ confirmed_potholes = run.confirmed
            /\ VIDEO \in DOMAIN detection_results
            /\ detection_results[VIDEO].summary = Summary(input.nframes, run.processed, run.confirmed, run.detections, run.log)
            /\ detection_results[VIDEO].pothole_list = PotholeList(run.confirmed, input.fps)
            /\ detection_results[VIDEO].frames = run.log

\* The event loop runs a coroutine of the worker (no restart in this step).
DeliverStep == loop_queue # << >> /\ loop_queue' = Tail(loop_queue) /\ wrapper_pc' # "gone" /\ emitted' = emitted

\* A send for a job without a listener changes nothing.
SendWithoutListener ==
    (DeliverStep /\ VIDEO \notin DOMAIN active_connections) =>
        UNCHANGED <<input, upload_pc, wrapper_pc, worker_pc, workerVars, storeVars, connVars>>

\* A send on a failed transport detaches the listener and reaches nothing
\* else: not the worker, not the status, not the results.
SendOnFailedTransport ==
    (/\ DeliverStep
     /\ VIDEO \in DOMAIN active_connections
     /\ ~TransportUp(conn[active_connections[VIDEO]])) =>
        /\ VIDEO \notin DOMAIN active_connections'
        /\ UNCHANGED <<input, upload_pc, wrapper_pc, worker_pc, workerVars, storeVars, conn>>

\* C17: a send without a listener changes nothing; a send that fails at the
\* transport detaches the listener and is not propagated; and the job's
\* outcome (status, confirmed potholes, report) is the one it has with no
\* listener involved.
C17_TransportFailureIsLocal ==
    /\ [][SendWithoutListener /\ SendOnFailedTransport]_vars
    /\ []OutcomeAsWithoutListener

\* A job that returned with its report after a send to its only listener
\* failed: the client is gone, the handler has not noticed yet, and the
\* listener is detached.
C17_Witness ==
    /\ JobReturned
    /\ VIDEO \in DOMAIN detection_results
    /\ \E w \in Connections :
          /\ attached = <<w>>
          /\ conn[w].client = "gone"
          /\ conn[w].pc = "recv"
          /\ VIDEO \notin DOMAIN active_connections
          /\ Len(conn[w].log) < Len(emitted)

\* ------------------------------------------------------------ termination

\* The job was admitted: upload_video wrote its status record.
Admitted == VIDEO \in DOMAIN processing_status

\* The steps a job's status takes.
LifecycleSteps == {<<"unknown", "queued">>, <<"queued", "processing">>, <<"processing", "completed">>, <<"processing", "error">>}

\* The status changes only forward along the lifecycle: nothing takes an
\* admitted job back or out of the map.
LifecycleStep ==
    StatusOfJob' # StatusOfJob =>
        <<StatusOfJob, IF VIDEO \in DOMAIN processing_status' THEN processing_status'[VIDEO].status ELSE "unknown">> \in LifecycleSteps

\* C18: every admitted job reaches status completed or error, and stays
\* there; its status moves only forward (no abort in between).
C18_JobTerminates ==
    /\ Admitted ~> JobDone
    /\ [](JobDone => []JobDone)
    /\ [][LifecycleStep]_vars

\* An admitted job in the middle of its frame loop, its listener gone.
C18_Witness ==
    /\ StatusOfJob = "processing"
    /\ worker_pc = "loop"
    /\ frame_count > 0
    /\ frame_count < input.nframes
    /\ \E w \in Connections : conn[w].client = "gone"

\* ------------------------------------------------------------ the parameter selector

\* The three tuples and their bands, as stated.
StatedParams(speed) ==
    CASE speed < 30 -> [roi_ratio |-> 50, pothole_conf |-> 35]
      [] speed >= 30 /\ speed < 60 -> [roi_ratio |-> 65, pothole_conf |-> 28]
      [] speed >= 60 -> [roi_ratio |-> 75, pothole_conf |-> 22]

\* C19: the selector returns (0.50, 0.35) below 30, (0.65, 0.28) from 30 to
\* below 60 and (0.75, 0.22) from 60 on, for every speed from 0 up; and every
\* frame-log entry of the job, in the log and in the stored report, carries
\* the ROI fraction of the job's speed.
C19_ParamsByBand ==
    /\ \A speed \in 0..(MaxSpeed + 1) : get_adaptive_params(speed) = StatedParams(speed)
    /\ \A i \in 1..Len(frames) :
          frames[i].roi_ratio = StatedParams(input.speed_kmh).roi_ratio
    /\ VIDEO \in DOMAIN detection_results =>
          \A i \in 1..Len(detection_results[VIDEO].frames) :
              detection_results[VIDEO].frames[i].roi_ratio = StatedParams(input.speed_kmh).roi_ratio

\* A stored report of a job at speed 60, its frame-log entry with the ROI
\* fraction of the high band.
C19_Witness ==
    /\ input.speed_kmh = 60
    /\ VIDEO \in DOMAIN detection_results
    /\ detection_results[VIDEO].frames # << >>
    /\ detection_results[VIDEO].frames[1].roi_ratio = 75

\* ------------------------------------------------------------ the results read path

\* The job's own run wrote its result file whole.
FileWritten == VIDEO \in DOMAIN result_files /\ result_files[VIDEO].complete

\* C20: for a job that completed, get_results answers with the same report
\* with the in-memory copy present and with it absent (read from the file);
\* a copy in memory is the one the file holds; and the answer is not-found
\* exactly when the job has neither a copy in memory nor a file.
C20_SameReportFromFile ==
    /\ (StatusOfJob = "completed" \/ FileWritten) =>
          /\ get_results(EmptyDict, result_files).reply = "report"
          /\ get_results(detection_results, result_files) = get_results(EmptyDict, result_files)
    /\ get_results_reply = "not_found" <=>
          (VIDEO \notin DOMAIN detection_results /\ VIDEO \notin DOMAIN result_files)

\* After a restart that emptied the maps, a query has read the report of the
\* completed job from its file back into memory, pothole and frame log
\* included.
C20_Witness ==
    /\ upload_pc = "gone"
    /\ VIDEO \in DOMAIN detection_results
    /\ detection_results[VIDEO].pothole_list # << >>
    /\ detection_results[VIDEO].frames # << >>
    /\ detection_results[VIDEO].summary.unique_potholes = 1

\* ------------------------------------------------------------ a video without detections

\* The video opens, its frame count is sound and its result file can be
\* written.
HealthyInput == input.upload = "ok" /\ input.opens /\ input.total_frames > 0 /\ ~input.disk_fails

\* No sampled frame so far gave a detection, with or without a track id.
NoDetectionSoFar == observed = EmptyDict /\ total_detections = 0

\* C21: a job whose detector never returns a detection does not fail, and
\* when it has returned its status is completed and its report has
\* unique_potholes = 0, an empty frame log and an empty pothole list.
C21_NoDetectionsReport ==
    /\ (HealthyInput /\ input.stub.kind = "none") => worker_pc \notin {"except", "except_send", "raised"}
    /\ (worker_pc = "returned" /\ NoDetectionSoFar) =>
          /\ StatusOfJob = "completed"
          /\ VIDEO \in DOMAIN detection_results
          /\ detection_results[VIDEO].summary.unique_potholes = 0
          /\ detection_results[VIDEO].summary.total_detections = 0
          /\ detection_results[VIDEO].frames = << >>
          /\ detection_results[VIDEO].pothole_list = << >>

\* The quiet video's job has returned, all its sampled frames processed.
C21_Witness ==
    /\ input = QuietVideo
    /\ worker_pc = "returned"
    /\ processed_frame_count = MaxFrames \div FRAME_STEP
    /\ VIDEO \in DOMAIN detection_results

\* ------------------------------------------------------------ writes to the status map

\* The records that a writer puts into the status map as a whole: the upload
\* handler's (upload_service.py l.52-56), the wrapper's (video_processor.py
\* l.443-447 and l.464-468) and the worker's (l.392-396 and l.417-421).
WholeRecords ==
    {StatusRecord("queued", 0, "Video uploaded, waiting to process..."),
     StatusRecord("processing", 0, "Starting processing..."),
     StatusRecord("completed", 100, "Processing completed successfully")}
    \cup {StatusRecord("error", 0, m) : m \in {"Could not open video", "float division by zero", "could not write the result file"}}

\* C22: the job's status record is always one that a writer wrote as a whole
\* (status, progress and message together): no step changes one field of a
\* record in place, so no record holds fields of different writes.
C22_RecordsWrittenWhole ==
    VIDEO \in DOMAIN processing_status => processing_status[VIDEO] \in WholeRecords

\* The part of C22 the code keeps: the status and the message of a record
\* are always those of one whole write.
C22_StatusAndMessageWhole ==
    VIDEO \in DOMAIN processing_status =>
        \E r \in WholeRecords : r.status = processing_status[VIDEO].status /\ r.message = processing_status[VIDEO].message

\* ------------------------------------------------------------ when progress is reported

\* The progress of the last progress event emitted so far, 0 before the first.
LastReported(events) ==
    LET p == SelectSeq(events, LAMBDA e : e.type = "progress")
    IN  IF p = << >> THEN 0 ELSE p[Len(p)].progress

\* Consecutive progress events are at least 5 points apart, the first at
\* least 5 above 0.
ProgressEventsApart ==
    LET p == EmittedOfType("progress")
    IN  \A i \in 1..Len(p) : p[i].progress - (IF i = 1 THEN 0 ELSE p[i - 1].progress) >= 5

\* A sampled frame (its progress computed) either is 5 points or more above
\* the last progress reported, stores its progress and goes on to emit it, or
\* stores and emits nothing.
SampledFrameReports ==
    (processed_frame_count' = processed_frame_count + 1 /\ input.total_frames > 0) =>
        LET current_progress == CurrentProgress(processed_frame_count', input.total_frames)
        IN  /\ emitted' = emitted
            /\ IF current_progress - LastReported(emitted) >= 5
               THEN /\ worker_pc' = "send_progress"
                    /\ processing_status'[VIDEO].progress = current_progress
               ELSE /\ worker_pc' = "loop"
                    /\ processing_status' = processing_status

\* The step after a frame that reports emits the progress event of that
\* frame, and no other step emits one.
ProgressEmitted ==
    IF worker_pc = "send_progress" /\ worker_pc' # worker_pc
    THEN /\ Len(emitted') = Len(emitted) + 1
         /\ emitted'[Len(emitted')].type = "progress"
         /\ emitted'[Len(emitted')].progress = CurrentProgress(processed_frame_count, input.total_frames)
    ELSE EmittedOfType("progress")' = EmittedOfType("progress")

\* C23: a progress event is emitted exactly for the sampled frames whose
\* progress is at least 5 points above the last progress event's (0 before
\* the first); two consecutive progress events are at least 5 points apart;
\* a sampled frame below that emits nothing and leaves the stored progress.
C23_ProgressEveryFivePoints ==
    /\ []ProgressEventsApart
    /\ [][SampledFrameReports /\ ProgressEmitted]_vars

\* Between two progress events: the last sampled frame advanced the progress
\* by less than 5 points and nothing was emitted for it.
C23_Witness ==
    /\ Len(EmittedOfType("progress")) >= 2
    /\ worker_pc = "loop"
    /\ processed_frame_count > 0
    /\ input.total_frames > 0
    /\ CurrentProgress(processed_frame_count, input.total_frames) - LastReported(emitted) \in 1..4
    /\ processing_status[VIDEO].progress = LastReported(emitted)

\* ------------------------------------------------------------ the report before the status

\* C24: while the job's status is completed its report is in memory and in
\* the file, and a results query answers with it; and once the complete
\* event was emitted the file holds the report (and so does the map, as long
\* as the process lives).
C24_ReportBeforeCompleted ==
    /\ StatusOfJob = "completed" =>
          /\ VIDEO \in DOMAIN detection_results
          /\ FileWritten
          /\ JsonLoad(result_files[VIDEO].content) = detection_results[VIDEO]
          /\ get_results_reply = "report"
    /\ EmittedOfType("complete") # << >> =>
          /\ FileWritten
          /\ wrapper_pc # "gone" => (StatusOfJob = "completed" /\ VIDEO \in DOMAIN detection_results)

\* The status is completed and answered as such, the complete event not yet
\* emitted, a listener attached: the results query answers with the report.
C24_Witness ==
    /\ get_status_reply = "completed"
    /\ worker_pc = "send_complete"
    /\ EmittedOfType("complete") = << >>
    /\ get_results_reply = "report"
    /\ VIDEO \in DOMAIN active_connections

\* ------------------------------------------------------------ the lifecycle

\* The place of a status in the lifecycle.
StatusRank(status) ==
    CASE status = "unknown" -> 0
      [] status = "queued" -> 1
      [] status = "processing" -> 2
      [] OTHER -> 3

\* C25: as long as the process lives, every step that changes the job's
\* status takes it one place forward (queued, processing, then completed or
\* error), and a status of completed or error is never changed: completed
\* never becomes error, error never becomes completed.
C25_LifecycleForward ==
    [][wrapper_pc' # "gone" =>
          /\ LifecycleStep
          /\ StatusRank(StatusOfJob') >= StatusRank(StatusOfJob)
          /\ StatusOfJob \in {"completed", "error"} => StatusOfJob' = StatusOfJob]_vars

\* A job in error whose wrapper has run its except block after the worker's,
\* the upload handler done.
C25_Witness ==
    /\ StatusOfJob = "error"
    /\ worker_pc = "raised"
    /\ wrapper_pc = "done"
    /\ upload_pc = "done"

\* ------------------------------------------------------------ the bounded history

\* The last n entries of a sequence.
LastEntries(seq, n) == IF Len(seq) <= n THEN seq ELSE SubSeq(seq, Len(seq) - n + 1, Len(seq))

\* The decision at the i-th observation of a track over its whole history:
\* the observations up to it that lie inside the window are enough.
DecisionUnbounded(obs, i) ==
    IsConfirmed(RecentDetections(SubSeq(obs, 1, i), obs[i], input.fps))

\* The observation at which the whole history first confirms the track, 0 if
\* none does.
FirstConfirmingUnbounded(obs) ==
    IF \E i \in 1..Len(obs) : DecisionUnbounded(obs, i)
    THEN CHOOSE i \in 1..Len(obs) : DecisionUnbounded(obs, i) /\ \A k \in 1..(i - 1) : ~DecisionUnbounded(obs, k)
    ELSE 0

\* C26: no track's history holds more than 20 entries, it holds the latest
\* 20 of the track's observations, and the decisions are those of the whole
\* history: the decision at the latest observation, the set of confirmed
\* tracks, and each one's first-seen time (and frame, the timestamps being
\* the frame numbers over fps).
C26_BoundedHistorySameDecisions ==
    /\ DOMAIN pothole_tracker = DOMAIN observed
    /\ \A id \in DOMAIN observed :
          LET obs == observed[id]
              n == Len(obs)
          IN  /\ Len(pothole_tracker[id]) <= 20
              /\ pothole_tracker[id] = LastEntries(obs, 20)
              /\ \A i, j \in 1..n : i < j => obs[i] <= obs[j]
              /\ IsConfirmed(RecentDetections(pothole_tracker[id], obs[n], input.fps)) = DecisionUnbounded(obs, n)
              /\ OrderedHas(confirmed_potholes, id) <=> FirstConfirmingUnbounded(obs) > 0
              /\ OrderedHas(confirmed_potholes, id) =>
                    /\ OrderedGet(confirmed_potholes, id).first_seen_time = obs[FirstConfirmingUnbounded(obs)]
                    /\ input.fps > 0 =>
                          OrderedGet(confirmed_potholes, id).first_seen_frame = obs[FirstConfirmingUnbounded(obs)]

\* A track confirmed only after its history had overflowed: its first 20
\* observations and more were too far apart.
C26_Witness ==
    \E id \in DOMAIN observed :
        /\ Len(observed[id]) > 20
        /\ Len(pothole_tracker[id]) = 20
        /\ OrderedHas(confirmed_potholes, id)
        /\ FirstConfirmingUnbounded(observed[id]) > 20

=============================================================================
